---- MODULE Spec2Model ----
(***************************************************************************)
(* The plan / execute / replan loop of EnhancedManus                       *)
(* (src/app/agent/manus_enhanced.py): get_initial_plan, get_next_plan,     *)
(* execute_step and run_with_next_plan.                                    *)
(*                                                                         *)
(* Text is modelled as a sequence of tokens; `kw in text` is membership of *)
(* the token.  The tokens are ASCII transliterations of the keywords the   *)
(* code looks for:                                                         *)
(*   deyu 德语, yingyu 英语, danci 单词, cihui 词汇, fenxi 分析, tongji 统计,   *)
(*   mingci 名词, dongci 动词, xingrongci 形容词, jiaju 家具, jianzhu 建筑,     *)
(*   xuexijindu 学习进度, cishu 词书, keshihua 可视化, tubiao 图表.             *)
(* Python's Optional[T] is a sequence of length 0 (None) or 1.             *)
(* A dict is a function over its keys.                                     *)
(***************************************************************************)
EXTENDS Integers, Sequences, FiniteSets, TLC

VARIABLES
    planner,              \* which planner methods the agent class carries
    max_execution_steps,  \* self.max_execution_steps
    user_query,           \* self.user_query
    execution_history,    \* self.execution_history
    initial_plan,         \* run_with_next_plan: initial_plan
    next_plan,            \* run_with_next_plan: next_plan.next_steps
    reasoning,            \* run_with_next_plan: next_plan.reasoning
    step,                 \* the step handed to execute_step
    tool_outcome,         \* what available_tools.execute did on the last call
    ret,                  \* (success, result, error) returned by execute_step
    step_count,           \* run_with_next_plan: step_count
    pc,                   \* position of the run coroutine
    exit,                 \* the way the run left run_with_next_plan
    exec_calls,           \* calls of execute_step made by the current run
    plan_calls,           \* calls of get_next_plan made by the current run
    cancel_requested,     \* the user's interrupt (Ctrl-C) was signalled to the process
    runs                  \* the run coroutines of two requests on one agent

vars == <<planner, max_execution_steps, user_query, execution_history,
          initial_plan, next_plan, reasoning, step, tool_outcome, ret,
          step_count, pc, exit, exec_calls, plan_calls, cancel_requested, runs>>

---------------------------------------------------------------------------
(* Bounds *)

MaxSteps == 3          \* largest configured max_execution_steps
MaxPromptLen == 2      \* tokens in a request given to the planner alone
MaxRunPromptLen == 2   \* tokens in a request given to a run
MaxHistLen == 1        \* records in a history given to the planner alone

DefaultMaxSteps == 15

---------------------------------------------------------------------------
(* Python values *)

None == << >>
Some(v) == <<v>>
EmptyDict == [k \in {} |-> ""]
\* the value None stored under a key of a dict whose other values are strings
PyNone == "<None>"

\* dict.get(key) -> Optional
Get(d, k) == IF k \in DOMAIN d THEN Some(d[k]) ELSE None
\* dict.get(key, default)
GetDefault(d, k, default) == IF k \in DOMAIN d THEN d[k] ELSE default

\* `kw in text`
Contains(text, kw) == \E i \in 1..Len(text) : text[i] = kw

\* the upper-case form of a token (re.IGNORECASE on the level tags)
Upper(tok) ==
    CASE tok = "a1" -> "A1"
      [] tok = "c1" -> "C1"
      [] OTHER -> tok

\* re.search(pattern, text, re.IGNORECASE) is not None
SearchIgnoreCase(pattern, text) == \E i \in 1..Len(text) : Upper(text[i]) = pattern

Vocabulary ==
    {"deyu", "yingyu", "A1", "a1", "A2", "B1", "B2", "C1", "c1",
     "mingci", "dongci", "xingrongci", "jiaju", "jianzhu",
     "danci", "cihui", "fenxi", "tongji",
     "xuexijindu", "cishu", "keshihua", "tubiao", "other"}

RunVocabulary == {"danci", "cihui", "fenxi", "deyu", "cishu", "other"}

SeqsUpTo(S, n) == UNION {[1..k -> S] : k \in 0..n}

---------------------------------------------------------------------------
(* The planner: get_initial_plan and get_next_plan *)

\* language = "de" / "en" / None
Language(text) ==
    IF Contains(text, "deyu") THEN Some("de")
    ELSE IF Contains(text, "yingyu") THEN Some("en")
    ELSE None

\* the level tag: the first of A1, A2, B1, B2, C1 that re.search finds
LevelTag(text) ==
    IF SearchIgnoreCase("A1", text) THEN Some("A1")
    ELSE IF SearchIgnoreCase("A2", text) THEN Some("A2")
    ELSE IF SearchIgnoreCase("B1", text) THEN Some("B1")
    ELSE IF SearchIgnoreCase("B2", text) THEN Some("B2")
    ELSE IF SearchIgnoreCase("C1", text) THEN Some("C1")
    ELSE None

\* the level tag kept when a category tag is present as well
Tag_level_first(text) ==
    IF LevelTag(text) # None THEN LevelTag(text)
    ELSE IF Contains(text, "mingci") THEN Some("mingci")
    ELSE IF Contains(text, "dongci") THEN Some("dongci")
    ELSE IF Contains(text, "xingrongci") THEN Some("xingrongci")
    ELSE IF Contains(text, "jiaju") THEN Some("jiaju")
    ELSE IF Contains(text, "jianzhu") THEN Some("jianzhu")
    ELSE None

\* the category tag overrides the level tag
Tag(text) ==
    IF Contains(text, "mingci") THEN Some("mingci")
    ELSE IF Contains(text, "dongci") THEN Some("dongci")
    ELSE IF Contains(text, "xingrongci") THEN Some("xingrongci")
    ELSE IF Contains(text, "jiaju") THEN Some("jiaju")
    ELSE IF Contains(text, "jianzhu") THEN Some("jianzhu")
    ELSE LevelTag(text)

\* query_params = {}; if language: ...; if tag: ...
QueryParams(text) ==
    LET language == Language(text)
        tag == Tag(text)
        keys == (IF language # None THEN {"language"} ELSE {})
                \cup (IF tag # None THEN {"tag"} ELSE {})
    IN  [k \in keys |-> IF k = "language" THEN language[1] ELSE tag[1]]

MakeStep(name, input) == [tool_name |-> name, tool_input |-> input]

UserId == "ed62add4-bf40-4246-b7ab-2555015b383b"
WordbookId == "67b476007f33104e40786b99"

\* the 词书 test moved in front of the 学习进度 test
InitialRule_cishu_first(prompt) ==
    IF (Contains(prompt, "danci") \/ Contains(prompt, "cihui"))
       /\ (Contains(prompt, "fenxi") \/ Contains(prompt, "tongji")) THEN 1
    ELSE IF Contains(prompt, "cishu") THEN 3
    ELSE IF Contains(prompt, "xuexijindu") THEN 2
    ELSE IF Contains(prompt, "keshihua") \/ Contains(prompt, "tubiao") THEN 4
    ELSE 5

\* the rule of get_initial_plan the prompt falls under (first match wins)
InitialRule(prompt) ==
    IF (Contains(prompt, "danci") \/ Contains(prompt, "cihui"))
       /\ (Contains(prompt, "fenxi") \/ Contains(prompt, "tongji")) THEN 1
    ELSE IF Contains(prompt, "xuexijindu") THEN 2
    ELSE IF Contains(prompt, "cishu") THEN 3
    ELSE IF Contains(prompt, "keshihua") \/ Contains(prompt, "tubiao") THEN 4
    ELSE 5

\* a get_initial_plan whose else branch returns no step
get_initial_plan_no_fallback(self, prompt) ==
    LET rule == InitialRule(prompt)
        plan ==
            CASE rule = 1 -> <<MakeStep("collection_basic_info", EmptyDict)>>
              [] rule = 2 -> <<MakeStep("learning_progress_analysis",
                                        [user_id |-> UserId])>>
              [] rule = 3 -> <<MakeStep("wordbook_analysis",
                                        [wordbook_id |-> WordbookId])>>
              [] rule = 4 -> <<MakeStep("learning_visualization",
                                        [user_id |-> UserId,
                                         chart_type |-> "progress_trend"])>>
              [] OTHER -> << >>
    IN  [ret |-> plan, self |-> self]

\* get_initial_plan(self, prompt): the plan returned and self afterwards
get_initial_plan(self, prompt) ==
    LET query_params == QueryParams(prompt)
        rule == InitialRule(prompt)
        plan ==
            CASE rule = 1 -> <<MakeStep("collection_basic_info", EmptyDict)>>
              [] rule = 2 -> <<MakeStep("learning_progress_analysis",
                                        [user_id |-> UserId])>>
              [] rule = 3 -> <<MakeStep("wordbook_analysis",
                                        [wordbook_id |-> WordbookId])>>
              [] rule = 4 -> <<MakeStep("learning_visualization",
                                        [user_id |-> UserId,
                                         chart_type |-> "progress_trend"])>>
              [] OTHER -> <<MakeStep("collection_basic_info", EmptyDict)>>
    IN  [ret |-> plan, self |-> self]

NextPlan(r, steps) == [reasoning |-> r, next_steps |-> steps]

\* a get_next_plan without the test for an empty history
get_next_plan_no_guard(self) ==
    IF self.execution_history = << >>
    THEN [ret |-> NextPlan(None, <<MakeStep("collection_basic_info", EmptyDict)>>),
          self |-> self]
    ELSE
      LET h == self.execution_history
          last_step == h[Len(h)]
          query_params == QueryParams(self.user_query)
      IN  IF last_step.tool_name = "collection_basic_info"
             /\ (Contains(self.user_query, "danci")
                 \/ Contains(self.user_query, "cihui"))
          THEN [ret |-> NextPlan(Some("basic_info_done"),
                                 <<MakeStep("word_statistics", query_params)>>),
                self |-> self]
          ELSE [ret |-> NextPlan(Some("all_done"), << >>), self |-> self]

\* a get_next_plan that goes on only after a step that succeeded
get_next_plan_on_success(self) ==
    IF self.execution_history = << >>
    THEN [ret |-> NextPlan(Some("no_history"), << >>), self |-> self]
    ELSE
      LET h == self.execution_history
          last_step == h[Len(h)]
          query_params == QueryParams(self.user_query)
      IN  IF last_step.tool_name = "collection_basic_info"
             /\ last_step.error = None
             /\ (Contains(self.user_query, "danci")
                 \/ Contains(self.user_query, "cihui"))
          THEN [ret |-> NextPlan(Some("basic_info_done"),
                                 <<MakeStep("word_statistics", query_params)>>),
                self |-> self]
          ELSE [ret |-> NextPlan(Some("all_done"), << >>), self |-> self]

\* a get_next_plan that does not look at the tool of the last record
get_next_plan_any_last(self) ==
    IF self.execution_history = << >>
    THEN [ret |-> NextPlan(Some("no_history"), << >>), self |-> self]
    ELSE
      LET query_params == QueryParams(self.user_query)
      IN  IF Contains(self.user_query, "danci") \/ Contains(self.user_query, "cihui")
          THEN [ret |-> NextPlan(Some("basic_info_done"),
                                 <<MakeStep("word_statistics", query_params)>>),
                self |-> self]
          ELSE [ret |-> NextPlan(Some("all_done"), << >>), self |-> self]

\* a get_next_plan that consumes the last record instead of reading it
get_next_plan_pop(self) ==
    IF self.execution_history = << >>
    THEN [ret |-> NextPlan(Some("no_history"), << >>), self |-> self]
    ELSE
      LET h == self.execution_history
          last_step == h[Len(h)]
          popped == [self EXCEPT !.execution_history = SubSeq(h, 1, Len(h) - 1)]
          query_params == QueryParams(self.user_query)
      IN  IF last_step.tool_name = "collection_basic_info"
             /\ (Contains(self.user_query, "danci")
                 \/ Contains(self.user_query, "cihui"))
          THEN [ret |-> NextPlan(Some("basic_info_done"),
                                 <<MakeStep("word_statistics", query_params)>>),
                self |-> popped]
          ELSE [ret |-> NextPlan(Some("all_done"), << >>), self |-> popped]

\* get_next_plan(self): the NextPlan returned and self afterwards
get_next_plan(self) ==
    IF self.execution_history = << >>
    THEN [ret |-> NextPlan(Some("no_history"), << >>), self |-> self]
    ELSE
      LET h == self.execution_history
          last_step == h[Len(h)]
          query_params == QueryParams(self.user_query)
      IN  IF last_step.tool_name = "collection_basic_info"
             /\ (Contains(self.user_query, "danci")
                 \/ Contains(self.user_query, "cihui"))
          THEN [ret |-> NextPlan(Some("basic_info_done"),
                                 <<MakeStep("word_statistics", query_params)>>),
                self |-> self]
          ELSE [ret |-> NextPlan(Some("all_done"), << >>), self |-> self]

---------------------------------------------------------------------------
(* execute_step *)

\* what self.available_tools.execute does when it is awaited: it returns a
\* result (an empty output makes the result falsy) or raises
ToolOutcomes ==
    {[kind |-> "returned", value |-> <<"output">>],
     [kind |-> "returned", value |-> << >>],
     [kind |-> "ToolError", value |-> <<"m">>],
     [kind |-> "Exception", value |-> <<"m">>]}

NotCalled == [kind |-> "not_called", value |-> << >>]

\* bool(result) of a returned result
Truthy(result) == result # None /\ result[1] # << >>

\* not tool_name
Falsy(opt) == opt = None \/ opt[1] = "" \/ opt[1] = PyNone

MissingToolName == <<"buzhou_zhong_queshao_gongju_mingcheng">>     \* 步骤中缺少工具名称
ToolErrorPrefix == <<"gongju_zhixing_cuowu:">>                     \* 工具执行错误:
UnknownErrorPrefix == <<"zhixing_buzhou_shi_fasheng_weizhi_cuowu:">> \* 执行步骤时发生未知错误:

Triple(success, result, error) ==
    [success |-> success, result |-> result, error |-> error]

\* both except clauses building the same message
execute_step_one_prefix(self, s, outcome) ==
    LET tool_name == Get(s, "tool_name")
    IN  IF Falsy(tool_name)
        THEN [ret |-> Triple(FALSE, None, Some(MissingToolName)), called |-> FALSE]
        ELSE CASE outcome.kind = "returned" ->
                    [ret |-> Triple(TRUE, Some(outcome.value), None), called |-> TRUE]
               [] OTHER ->
                    [ret |-> Triple(FALSE, None, Some(ToolErrorPrefix \o outcome.value)),
                     called |-> TRUE]

\* execute_step(self, step) when the registry, if reached, behaves as outcome:
\* the triple returned, and whether available_tools.execute was called
execute_step(self, s, outcome) ==
    LET tool_name == Get(s, "tool_name")
        tool_input == GetDefault(s, "tool_input", EmptyDict)
    IN  IF Falsy(tool_name)
        THEN [ret |-> Triple(FALSE, None, Some(MissingToolName)), called |-> FALSE]
        ELSE CASE outcome.kind = "returned" ->
                    [ret |-> Triple(TRUE, Some(outcome.value), None), called |-> TRUE]
               [] outcome.kind = "ToolError" ->
                    [ret |-> Triple(FALSE, None, Some(ToolErrorPrefix \o outcome.value)),
                     called |-> TRUE]
               [] OTHER ->
                    [ret |-> Triple(FALSE, None, Some(UnknownErrorPrefix \o outcome.value)),
                     called |-> TRUE]

---------------------------------------------------------------------------
(* run_with_next_plan *)

\* ExecutionStep(tool_name=..., tool_input=...) raises pydantic's
\* ValidationError when tool_name, declared str, is given None
ExecutionStepRaises(s) == GetDefault(s, "tool_name", "unknown") = PyNone

\* the two branches of the success test exchanged
StepRecord_swapped(s, r) ==
    LET base == [tool_name |-> GetDefault(s, "tool_name", "unknown"),
                 tool_input |-> GetDefault(s, "tool_input", EmptyDict),
                 tool_output |-> None,
                 error |-> None]
    IN  IF r.success /\ Truthy(r.result)
        THEN [base EXCEPT !.error = r.error]
        ELSE [base EXCEPT !.tool_output = r.result]

\* step_record = ExecutionStep(...); then the success / error branch
StepRecord(s, r) ==
    LET base == [tool_name |-> GetDefault(s, "tool_name", "unknown"),
                 tool_input |-> GetDefault(s, "tool_input", EmptyDict),
                 tool_output |-> None,
                 error |-> None]
    IN  IF r.success /\ Truthy(r.result)
        THEN [base EXCEPT !.tool_output = r.result]
        ELSE [base EXCEPT !.error = r.error]

\* the loop condition off by one
LoopCondition_le(count, max) == count <= max

\* while True: the ceiling left to the check at the end of the body
LoopCondition_true(count, max) == TRUE

\* while step_count < self.max_execution_steps
LoopCondition(count, max) == count < max

\* if step_count >= self.max_execution_steps
CeilingReached(count, max) == count >= max

\* the sentinel check left out
IsTerminate_never(s) == FALSE

\* if step.get("tool_name") == "terminate"
IsTerminate(s) == Get(s, "tool_name") = Some("terminate")

\* the sentinel tested on the first step of the initial plan as well
FirstStepIntercepted_terminate(s) == IsTerminate(s)

\* first_step = initial_plan[0] goes to execute_step with no test of its name
FirstStepIntercepted(s) == FALSE

\* the record put in front instead of at the end
AppendRecord_front(history, record) == <<record>> \o history

\* self.execution_history.append(step_record)
AppendRecord(history, record) == Append(history, record)

\* the last proposed step taken instead of the first
TakenStep_last(steps) == steps[Len(steps)]

\* for step in next_plan.next_steps: ... break -- the one step an iteration takes
TakenStep(steps) == steps[1]

\* the empty initial plan let through
NoPlan_never(plan) == FALSE

\* if not initial_plan
NoPlan(plan) == plan = << >>

Self ==
    [execution_history |-> execution_history,
     user_query |-> user_query,
     max_execution_steps |-> max_execution_steps]

\* The planner methods are overridable: "builtin" is EnhancedManus itself,
\* "stub" a subclass whose two planning methods return any plan, "persistent" a
\* subclass whose get_next_plan always proposes one more step that is not
\* the terminate sentinel.
Planners == {"builtin", "stub", "persistent"}

WordStatisticsStep == MakeStep("word_statistics", EmptyDict)
TerminateStep == MakeStep("terminate", [reason |-> "stop"])
NamelessStep == [tool_input |-> EmptyDict]
EmptyNameStep == MakeStep("", EmptyDict)
NullNameStep == MakeStep(PyNone, EmptyDict)

StubPlans ==
    {<< >>, <<WordStatisticsStep>>, <<TerminateStep>>, <<NamelessStep>>,
     <<EmptyNameStep>>, <<NullNameStep>>,
     <<WordStatisticsStep, TerminateStep>>}

PersistentPlans == {<<WordStatisticsStep>>, <<NamelessStep, WordStatisticsStep>>}

\* a planning method that raises instead of returning
PlanningFailure(self) == [raises |-> "Exception", self |-> self]
Raises(r) == "raises" \in DOMAIN r

\* the results self.get_initial_plan(prompt) can have
InitialPlanResults(self, prompt) ==
    IF planner = "stub"
    THEN {[ret |-> p, self |-> self] : p \in StubPlans} \cup {PlanningFailure(self)}
    ELSE {get_initial_plan(self, prompt)}

\* the results self.get_next_plan() can have
NextPlanResults(self) ==
    CASE planner = "stub" ->
            {[ret |-> NextPlan(Some("stub"), p), self |-> self] : p \in StubPlans}
                \cup {PlanningFailure(self)}
      [] planner = "persistent" ->
            {[ret |-> NextPlan(Some("stub"), p), self |-> self] : p \in PersistentPlans}
      [] OTHER -> {get_next_plan(self)}

\* the requests a run is given
RunPrompts == SeqsUpTo(RunVocabulary, MaxRunPromptLen)
StubPrompts == {<< >>, <<"danci", "fenxi">>}
Requests == IF planner = "builtin" THEN RunPrompts ELSE StubPrompts

NoTriple == Triple(FALSE, None, None)
NoRuns == << >>
NoStep == [k \in {} |-> ""]

Finish(how) == pc' = "done" /\ exit' = how

\* lines 364-381 (and 401-402 when the branch at line 380 is not taken): the
\* run starts, up to the choice of the first step
StartRun ==
    /\ pc \in {"idle", "done"}
    /\ \E prompt \in Requests :
         LET entered == [Self EXCEPT !.user_query = prompt,
                                     !.execution_history = << >>]
         IN  \E r \in InitialPlanResults(entered, prompt) :
               /\ user_query' = r.self.user_query
               /\ execution_history' = r.self.execution_history
               /\ max_execution_steps' = r.self.max_execution_steps
               /\ IF Raises(r)
                  THEN /\ Finish("exception")
                       /\ initial_plan' = << >> /\ step' = NoStep /\ step_count' = 0
                  ELSE
                    /\ initial_plan' = r.ret
                    /\ IF NoPlan(r.ret)
                       THEN Finish("no_plan") /\ step' = NoStep /\ step_count' = 0
                       ELSE IF r.ret # << >>
                            THEN /\ step' = r.ret[1] /\ step_count' = 0
                                 /\ IF FirstStepIntercepted(r.ret[1])
                                    THEN Finish("explicit_terminate")
                                    ELSE pc' = "exec_first" /\ exit' = "running"
                            ELSE /\ step' = NoStep /\ step_count' = 1
                                 /\ IF LoopCondition(1, max_execution_steps)
                                    THEN pc' = "plan" /\ exit' = "running"
                                    ELSE Finish("loop_condition")
    /\ next_plan' = << >>
    /\ reasoning' = None
    /\ ret' = NoTriple
    /\ tool_outcome' = NotCalled
    /\ exec_calls' = 0
    /\ plan_calls' = 0
    /\ cancel_requested' = FALSE
    /\ UNCHANGED <<runs, planner>>

\* lines 383 and 428: await self.execute_step(step)
ExecuteStep ==
    /\ pc \in {"exec_first", "exec_next"}
    /\ \E outcome \in ToolOutcomes :
         LET r == execute_step(Self, step, outcome)
         IN  /\ ret' = r.ret
             /\ tool_outcome' = IF r.called THEN outcome ELSE NotCalled
    /\ exec_calls' = exec_calls + 1
    /\ pc' = IF pc = "exec_first" THEN "record_first" ELSE "record_next"
    /\ UNCHANGED <<cancel_requested, runs, planner, max_execution_steps, user_query, execution_history,
                   initial_plan, next_plan, reasoning, step, step_count, exit,
                   plan_calls>>

\* lines 385-402: the first record, step_count = 1, the loop condition
RecordFirst ==
    /\ pc = "record_first"
    /\ IF ExecutionStepRaises(step)
       THEN Finish("validation_error") /\ UNCHANGED <<execution_history, step_count>>
       ELSE /\ execution_history' = AppendRecord(execution_history, StepRecord(step, ret))
            /\ step_count' = 1
            /\ IF LoopCondition(1, max_execution_steps)
               THEN pc' = "plan" /\ exit' = exit
               ELSE Finish("loop_condition")
    /\ UNCHANGED <<cancel_requested, runs, planner, max_execution_steps, user_query, initial_plan,
                   next_plan, reasoning, step, tool_outcome, ret, exec_calls,
                   plan_calls>>

\* lines 404-424: get_next_plan, the empty plan, the terminate sentinel
Replan ==
    /\ pc = "plan"
    /\ \E r \in NextPlanResults(Self) :
         /\ user_query' = r.self.user_query
         /\ execution_history' = r.self.execution_history
         /\ max_execution_steps' = r.self.max_execution_steps
         /\ IF Raises(r)
            THEN /\ Finish("exception")
                 /\ UNCHANGED <<next_plan, reasoning, step, step_count>>
            ELSE
              /\ next_plan' = r.ret.next_steps
              /\ reasoning' = r.ret.reasoning
              /\ IF r.ret.next_steps = << >>
                 THEN Finish("completed") /\ UNCHANGED <<step, step_count>>
                 ELSE /\ step_count' = step_count + 1
                      /\ IF IsTerminate(TakenStep(r.ret.next_steps))
                         THEN Finish("explicit_terminate") /\ step' = step
                         ELSE pc' = "exec_next" /\ exit' = exit
                              /\ step' = TakenStep(r.ret.next_steps)
    /\ plan_calls' = plan_calls + 1
    /\ UNCHANGED <<cancel_requested, runs, planner, initial_plan, tool_outcome, ret, exec_calls>>

\* lines 430-451 and 402: the record, the break, the ceiling, the loop condition
RecordNext ==
    /\ pc = "record_next"
    /\ IF ExecutionStepRaises(step)
       THEN Finish("validation_error") /\ UNCHANGED execution_history
       ELSE /\ execution_history' = AppendRecord(execution_history, StepRecord(step, ret))
            /\ IF CeilingReached(step_count, max_execution_steps)
               THEN Finish("step_ceiling")
               ELSE IF LoopCondition(step_count, max_execution_steps)
                    THEN pc' = "plan" /\ exit' = exit
                    ELSE Finish("loop_condition")
    /\ UNCHANGED <<cancel_requested, runs, planner, max_execution_steps, user_query, initial_plan,
                   next_plan, reasoning, step, tool_outcome, ret, step_count,
                   exec_calls, plan_calls>>

\* the agent after construction (lines 49-56): the ceiling is the default or
\* a configured value (overriding planners are run with the configured
\* values only)
Init ==
    /\ planner \in Planners
    /\ max_execution_steps \in
          ((0 - 1)..MaxSteps)
          \cup (IF planner = "builtin" THEN {DefaultMaxSteps} ELSE {})
    /\ user_query = << >>
    /\ execution_history = << >>
    /\ initial_plan = << >>
    /\ next_plan = << >>
    /\ reasoning = None
    /\ step = NoStep
    /\ tool_outcome = NotCalled
    /\ ret = NoTriple
    /\ step_count = 0
    /\ pc = "idle"
    /\ exit = "not_started"
    /\ exec_calls = 0
    /\ plan_calls = 0
    /\ cancel_requested = FALSE
    /\ runs = NoRuns

RunStep == ExecuteStep \/ RecordFirst \/ Replan \/ RecordNext

Next == StartRun \/ ExecuteStep \/ RecordFirst \/ Replan \/ RecordNext

Spec == Init /\ [][Next]_vars

\* the event loop runs a started coroutine on; every awaited tool call ends
FairSpec == Spec /\ WF_vars(RunStep)

---------------------------------------------------------------------------
(* The user's interrupt.  bi_main.py runs main() under asyncio.run and     *)
(* catches KeyboardInterrupt around `await agent.run(prompt)` (lines       *)
(* 92-100).  run_with_next_plan reads no signal (lines 400-451): the       *)
(* interrupt reaches the run only as an exception raised at whatever point *)
(* the interpreter delivers it, which may be late.                         *)

Running == {"exec_first", "record_first", "plan", "exec_next", "record_next"}

\* the user presses Ctrl-C while a run is in progress
RequestCancel ==
    /\ pc \in Running
    /\ ~cancel_requested
    /\ cancel_requested' = TRUE
    /\ UNCHANGED <<planner, max_execution_steps, user_query, execution_history,
                   initial_plan, next_plan, reasoning, step, tool_outcome, ret,
                   step_count, pc, exit, exec_calls, plan_calls, runs>>

\* the interrupt is delivered: the exception leaves run_with_next_plan and run,
\* and main prints that the operation was cancelled (bi_main.py lines 98-100)
Interrupted ==
    /\ pc \in Running
    /\ cancel_requested
    /\ Finish("interrupted")
    /\ UNCHANGED <<planner, max_execution_steps, user_query, execution_history,
                   initial_plan, next_plan, reasoning, step, tool_outcome, ret,
                   step_count, exec_calls, plan_calls, cancel_requested, runs>>

CancelNext == Next \/ RequestCancel \/ Interrupted

CancelSpec == Init /\ [][CancelNext]_vars

---------------------------------------------------------------------------
(* Two requests run concurrently on one agent.  The state of a run that    *)
(* is kept on the agent (self.user_query, self.execution_history, lines    *)
(* 365-366) is one copy; step, step_count and the triple are locals of     *)
(* each coroutine.  A coroutine runs without interruption from one awaited *)
(* tool call to the next (the planning methods never suspend).             *)

ConcPrompts == {<<"fenxi", "danci">>, <<"deyu", "cihui">>, <<"cishu">>}

RunIds == {1, 2}

IdleRun(request) ==
    [pc |-> "idle", request |-> request, step |-> NoStep, step_count |-> 0,
     exit |-> "not_started",
     executed |-> << >>,       \* the records of the steps this run executed
     view |-> << >>,           \* self.execution_history as this run last left it
     planned_for |-> request]  \* the request its last planning call read

ConcInit ==
    /\ planner = "builtin"
    /\ max_execution_steps \in 1..MaxSteps
    /\ user_query = << >>
    /\ execution_history = << >>
    /\ initial_plan = << >>
    /\ next_plan = << >>
    /\ reasoning = None
    /\ step = NoStep
    /\ tool_outcome = NotCalled
    /\ ret = NoTriple
    /\ step_count = 0
    /\ pc = "idle"
    /\ exit = "not_started"
    /\ exec_calls = 0
    /\ plan_calls = 0
    /\ cancel_requested = FALSE
    /\ runs \in [RunIds -> {IdleRun(q) : q \in ConcPrompts}]

ConcUnchanged ==
    UNCHANGED <<planner, max_execution_steps, initial_plan, next_plan, reasoning,
                step, tool_outcome, ret, step_count, pc, exit, exec_calls,
                plan_calls, cancel_requested>>

\* lines 364-383: run i enters run_with_next_plan and runs up to the await of
\* its first tool call
CStart(i) ==
    /\ runs[i].pc = "idle"
    /\ LET me == runs[i]
           entered == [Self EXCEPT !.user_query = me.request,
                                   !.execution_history = << >>]
           r == get_initial_plan(entered, me.request)
       IN  /\ user_query' = r.self.user_query
           /\ execution_history' = r.self.execution_history
           /\ runs' = [runs EXCEPT ![i] =
                 IF NoPlan(r.ret)
                 THEN [me EXCEPT !.pc = "done", !.exit = "no_plan",
                                 !.view = r.self.execution_history]
                 ELSE [me EXCEPT !.pc = "await_tool", !.step = r.ret[1],
                                 !.view = r.self.execution_history]]
    /\ ConcUnchanged

\* lines 383-451: the tool call of run i ends; the run records the step, tests
\* the ceiling, plans again and runs up to the await of its next tool call
CResume(i, outcome) ==
    /\ runs[i].pc = "await_tool"
    /\ LET me == runs[i]
           first == me.step_count = 0
           r == execute_step(Self, me.step, outcome)
           record == StepRecord(me.step, r.ret)
           history == AppendRecord(execution_history, record)
           count == IF first THEN 1 ELSE me.step_count
           ceiling == ~first /\ CeilingReached(count, max_execution_steps)
           goes_on == ~ceiling /\ LoopCondition(count, max_execution_steps)
           p == get_next_plan([Self EXCEPT !.execution_history = history])
           recorded == [me EXCEPT !.executed = Append(me.executed, record),
                                  !.step_count = count]
       IN  IF ~goes_on
           THEN /\ execution_history' = history
                /\ user_query' = user_query
                /\ runs' = [runs EXCEPT ![i] =
                      [recorded EXCEPT
                          !.pc = "done",
                          !.exit = IF ceiling THEN "step_ceiling" ELSE "loop_condition",
                          !.view = history]]
           ELSE /\ execution_history' = p.self.execution_history
                /\ user_query' = p.self.user_query
                /\ runs' = [runs EXCEPT ![i] =
                      LET planned == [recorded EXCEPT
                                         !.view = p.self.execution_history,
                                         !.planned_for = user_query]
                      IN  IF p.ret.next_steps = << >>
                          THEN [planned EXCEPT !.pc = "done", !.exit = "completed"]
                          ELSE IF IsTerminate(TakenStep(p.ret.next_steps))
                               THEN [planned EXCEPT !.pc = "done",
                                                    !.exit = "explicit_terminate",
                                                    !.step_count = count + 1]
                               ELSE [planned EXCEPT !.step = TakenStep(p.ret.next_steps),
                                                    !.step_count = count + 1]]
    /\ ConcUnchanged

ConcNext ==
    \E i \in RunIds : CStart(i) \/ \E outcome \in ToolOutcomes : CResume(i, outcome)

ConcSpec == ConcInit /\ [][ConcNext]_vars

---------------------------------------------------------------------------
(* The planner called on its own: a caller sets user_query and            *)
(* execution_history on the agent and calls the two planning methods.     *)

\* requests of up to MaxPromptLen tokens, alone or after a word-analysis phrase
WordAnalysisPhrases == {<<"fenxi", "danci">>, <<"tongji", "cihui">>}
PlannerPrompts ==
    SeqsUpTo(Vocabulary, MaxPromptLen)
    \cup {w \o p : w \in WordAnalysisPhrases, p \in SeqsUpTo(Vocabulary, MaxPromptLen)}

PlannerRecords ==
    {[tool_name |-> n, tool_input |-> EmptyDict, tool_output |-> o[1], error |-> o[2]] :
        n \in {"collection_basic_info", "word_statistics"},
        o \in {<<Some(<<"output">>), None>>, <<None, Some(ToolErrorPrefix \o <<"m">>)>>}}

PlannerHistories == SeqsUpTo(PlannerRecords, MaxHistLen)

PlannerInit ==
    /\ planner = "builtin"
    /\ max_execution_steps = DefaultMaxSteps
    /\ user_query \in PlannerPrompts
    /\ execution_history \in PlannerHistories
    /\ initial_plan = << >>
    /\ next_plan = << >>
    /\ reasoning = None
    /\ step = NoStep
    /\ tool_outcome = NotCalled
    /\ ret = NoTriple
    /\ step_count = 0
    /\ pc = "caller"
    /\ exit = "not_started"
    /\ exec_calls = 0
    /\ plan_calls = 0
    /\ cancel_requested = FALSE
    /\ runs = NoRuns

\* await agent.get_initial_plan(agent.user_query)
CallGetInitialPlan ==
    /\ pc = "caller"
    /\ LET r == get_initial_plan(Self, user_query)
       IN  /\ initial_plan' = r.ret
           /\ user_query' = r.self.user_query
           /\ execution_history' = r.self.execution_history
           /\ max_execution_steps' = r.self.max_execution_steps
    /\ pc' = "got_initial_plan"
    /\ UNCHANGED <<cancel_requested, runs, planner, next_plan, reasoning, step, tool_outcome, ret,
                   step_count, exit, exec_calls, plan_calls>>

\* await agent.get_next_plan()
CallGetNextPlan ==
    /\ pc \in {"caller", "got_initial_plan"}
    /\ LET r == get_next_plan(Self)
       IN  /\ next_plan' = r.ret.next_steps
           /\ reasoning' = r.ret.reasoning
           /\ user_query' = r.self.user_query
           /\ execution_history' = r.self.execution_history
           /\ max_execution_steps' = r.self.max_execution_steps
    /\ pc' = "got_next_plan"
    /\ plan_calls' = plan_calls + 1
    /\ UNCHANGED <<cancel_requested, runs, planner, initial_plan, step, tool_outcome, ret, step_count,
                   exit, exec_calls>>

PlannerNext == CallGetInitialPlan \/ CallGetNextPlan

PlannerSpec == PlannerInit /\ [][PlannerNext]_vars

---------------------------------------------------------------------------
(* Properties *)

IsPrefix(p, q) == Len(q) >= Len(p) /\ SubSeq(q, 1, Len(p)) = p

\* the exits taken because step_count >= max_execution_steps: the test at the
\* end of the loop body (line 449) and the loop condition (line 402)
CeilingExits == {"step_ceiling", "loop_condition"}

\* the exits that tell the user why the run ended (lines 376, 409, 423, 450)
TerminalReasons == {"completed", "explicit_terminate", "step_ceiling", "no_plan"}

Raised == {"ToolError", "Exception"}

\* the request mentions words (单词/词汇) together with an analysis verb (分析/统计)
WordAnalysisRequest(text) ==
    /\ \E i \in 1..Len(text) : text[i] \in {"danci", "cihui"}
    /\ \E i \in 1..Len(text) : text[i] \in {"fenxi", "tongji"}

\* the request names no language and no tag
NoLanguageNoTag(text) ==
    \A i \in 1..Len(text) :
        text[i] \notin {"deyu", "yingyu", "A1", "a1", "A2", "B1", "B2", "C1", "c1",
                        "mingci", "dongci", "xingrongci", "jiaju", "jianzhu"}

\* C1: with max_execution_steps >= 1, whatever the planner returns, a started
\* run ends, and neither the steps handed to execute_step nor the records of
\* execution_history ever exceed max_execution_steps; at the end the two agree
\* (unless the record of a step could not be built).
C1_BoundedRun ==
    /\ [](max_execution_steps >= 1 =>
            /\ exec_calls <= max_execution_steps
            /\ Len(execution_history) <= max_execution_steps
            /\ ((pc = "done" /\ exit # "validation_error") =>
                    Len(execution_history) = exec_calls))
    /\ ((pc \notin {"idle", "done"}) ~> (pc = "done"))

C1_Witness ==
    /\ planner = "persistent"
    /\ pc = "done"
    /\ max_execution_steps = MaxSteps
    /\ exec_calls = MaxSteps
    /\ Len(execution_history) = MaxSteps

C3_FailureRecorded ==
    [][(pc \in {"record_first", "record_next"} /\ tool_outcome.kind \in Raised) =>
         /\ Len(execution_history') = Len(execution_history) + 1
         /\ SubSeq(execution_history', 1, Len(execution_history)) = execution_history
         /\ execution_history'[Len(execution_history')].error # None
         /\ execution_history'[Len(execution_history')].tool_output = None
         /\ execution_history'[Len(execution_history')].tool_name = step.tool_name
         /\ step_count' = Len(execution_history')
         /\ (pc' = "plan" \/ (pc' = "done" /\ exit' \in CeilingExits))
         /\ (pc' = "plan" <=> step_count' < max_execution_steps)]_vars

C3_Witness ==
    /\ pc = "plan"
    /\ tool_outcome.kind \in Raised
    /\ Len(execution_history) = 2
    /\ execution_history[2].error # None
    /\ execution_history[2].tool_output = None
    /\ step_count = 2

\* C4: execute_step always returns a triple: (True, result, None) when the
\* tool returned, (False, None, tool-execution-error message) on ToolError,
\* (False, None, unknown-error message) on any other Exception, and the kind of
\* failure can be read off the message.
C4_FailureContained ==
    (pc \in {"record_first", "record_next"}) =>
        /\ ret.success \in BOOLEAN
        /\ (tool_outcome.kind = "returned" =>
                ret = Triple(TRUE, Some(tool_outcome.value), None))
        /\ (tool_outcome.kind = "ToolError" =>
                ret = Triple(FALSE, None, Some(ToolErrorPrefix \o tool_outcome.value)))
        /\ (tool_outcome.kind = "Exception" =>
                ret = Triple(FALSE, None, Some(UnknownErrorPrefix \o tool_outcome.value)))
        /\ (tool_outcome.kind = "not_called" =>
                ret = Triple(FALSE, None, Some(MissingToolName)))
        /\ (~ret.success =>
                /\ ret.result = None
                /\ ret.error # None
                /\ (IsPrefix(ToolErrorPrefix, ret.error[1])
                        <=> tool_outcome.kind = "ToolError")
                /\ (IsPrefix(UnknownErrorPrefix, ret.error[1])
                        <=> tool_outcome.kind = "Exception"))

C4_Witness ==
    /\ pc = "record_next"
    /\ tool_outcome.kind = "Exception"
    /\ ret = Triple(FALSE, None, Some(UnknownErrorPrefix \o <<"m">>))

\* C5: when get_next_plan returns a plan whose first step is the terminate
\* sentinel, the run ends at once as explicitly terminated: the step is not
\* handed to execute_step, no record is appended, and afterwards nothing is
\* planned or executed until another run starts.
C5_ExplicitTerminate ==
    [][/\ (pc = "plan" /\ next_plan' # << >>
                       /\ Get(next_plan'[1], "tool_name") = Some("terminate")) =>
            /\ pc' = "done"
            /\ exit' = "explicit_terminate"
            /\ execution_history' = execution_history
            /\ exec_calls' = exec_calls
       /\ (pc = "done" /\ exit = "explicit_terminate") =>
            /\ plan_calls' = 0
            /\ exec_calls' = 0
            /\ execution_history' = << >>]_vars

C5_Witness ==
    /\ pc = "done"
    /\ exit = "explicit_terminate"
    /\ next_plan # << >>
    /\ next_plan[1].tool_name = "terminate"
    /\ Len(execution_history) = 2
    /\ exec_calls = 2
    /\ plan_calls = 2

\* C6: every record of execution_history has exactly one of tool_output and
\* error set.
C6_ExactlyOneOfOutputError ==
    \A i \in 1..Len(execution_history) :
        (execution_history[i].tool_output = None) # (execution_history[i].error = None)

\* C7: every run with max_execution_steps >= 1 that has ended (here with the
\* built-in planner, which never raises) has told one of the reasons completed,
\* explicit_terminate, step_ceiling, no_plan.
C7_ExplicitReason ==
    (planner = "builtin" /\ pc = "done" /\ max_execution_steps >= 1) =>
        exit \in TerminalReasons

\* C8: a second call of get_next_plan, made right after the first with the
\* same user_query and execution_history, returns the same plan (reasoning
\* and next_steps).
C8_PlanningIdempotent ==
    [][pc' = "got_next_plan" =>
         get_next_plan(Self').ret = NextPlan(reasoning', next_plan')]_vars

C8_Witness ==
    /\ pc = "got_next_plan"
    /\ Len(execution_history) >= 1
    /\ next_plan # << >>
    /\ next_plan[1].tool_input # EmptyDict

\* C9: a call of get_initial_plan or get_next_plan leaves execution_history,
\* user_query and max_execution_steps as they were.
C9_PlannerReadsOnly ==
    [][(CallGetInitialPlan \/ CallGetNextPlan) =>
         UNCHANGED <<execution_history, user_query, max_execution_steps>>]_vars

C9_Witness ==
    /\ pc = "got_next_plan"
    /\ initial_plan # << >>
    /\ next_plan # << >>
    /\ Len(execution_history) >= 1
    /\ user_query # << >>

\* C10: with the built-in planner and max_execution_steps >= 3, a request
\* that mentions words together with an analysis verb and names no language
\* or tag runs exactly two steps, collection_basic_info with empty input and
\* then word_statistics with empty input; the planning call after them
\* returns no steps and the run ends as completed.
C10_WordAnalysisScenario ==
    (/\ planner = "builtin"
     /\ pc = "done"
     /\ max_execution_steps >= 3
     /\ WordAnalysisRequest(user_query)
     /\ NoLanguageNoTag(user_query)) =>
        /\ exit = "completed"
        /\ Len(execution_history) = 2
        /\ exec_calls = 2
        /\ execution_history[1].tool_name = "collection_basic_info"
        /\ execution_history[1].tool_input = EmptyDict
        /\ execution_history[2].tool_name = "word_statistics"
        /\ execution_history[2].tool_input = EmptyDict
        /\ plan_calls = 2
        /\ next_plan = << >>

C10_Witness ==
    /\ planner = "builtin"
    /\ pc = "done"
    /\ max_execution_steps = 3
    /\ user_query = <<"fenxi", "danci">>
    /\ exit = "completed"
    /\ Len(execution_history) = 2
    /\ execution_history[2].tool_name = "word_statistics"

\* C11: for a request that names the level tag A1 and the language 德语 (and no
\* category tag), the first step of the plan get_initial_plan returns carries
\* the extracted mapping {language: "de", tag: "A1"} as its tool_input.
C11_ParamsPassed ==
    (/\ pc = "got_initial_plan"
     /\ \E i \in 1..Len(user_query) : user_query[i] = "deyu"
     /\ \E i \in 1..Len(user_query) : user_query[i] \in {"A1", "a1"}
     /\ \A i \in 1..Len(user_query) :
            user_query[i] \notin {"mingci", "dongci", "xingrongci", "jiaju", "jianzhu"}) =>
        /\ initial_plan # << >>
        /\ initial_plan[1].tool_input = [language |-> "de", tag |-> "A1"]

\* C12: within a run execution_history only grows at its end, by the record of
\* the step just executed, which becomes record number exec_calls; a new run on
\* the same agent starts from an empty history.
C12_AppendOnly ==
    [][IF pc \in {"idle", "done"}
       THEN execution_history' = << >>
       ELSE /\ Len(execution_history') \in {Len(execution_history), Len(execution_history) + 1}
            /\ SubSeq(execution_history', 1, Len(execution_history)) = execution_history
            /\ (Len(execution_history') = Len(execution_history) + 1 =>
                  /\ pc \in {"record_first", "record_next"}
                  /\ Len(execution_history') = exec_calls
                  /\ execution_history'[exec_calls].tool_name
                        = GetDefault(step, "tool_name", "unknown")
                  /\ execution_history'[exec_calls].tool_input
                        = GetDefault(step, "tool_input", EmptyDict))]_vars

C12_Witness ==
    /\ pc = "plan"
    /\ exec_calls = 2
    /\ Len(execution_history) = 2
    /\ execution_history[1].tool_name = "collection_basic_info"
    /\ execution_history[2].tool_name = "word_statistics"

\* C13: of a plan of several steps only the first is executed; the next step
\* executed comes from a new call of get_next_plan, so that steps executed and
\* records appended never exceed the planning calls (the initial plan and the
\* calls of get_next_plan).
C13_OneStepPerPlan ==
    /\ [](exec_calls <= plan_calls + 1 /\ Len(execution_history) <= plan_calls + 1)
    /\ [][/\ (pc = "plan" /\ pc' = "exec_next") => step' = next_plan'[1]
          /\ (pc = "record_next") => pc' \in {"plan", "done"}
          /\ (pc = "exec_next") => (pc' = "record_next" /\ plan_calls' = plan_calls)]_vars

C13_Witness ==
    /\ pc = "exec_next"
    /\ plan_calls = 2
    /\ exec_calls = 2
    /\ Len(next_plan) = 2
    /\ Len(execution_history) = 2
    /\ step = next_plan[1]

\* C14: get_next_plan is only called while step_count < max_execution_steps;
\* a record that brings step_count to the ceiling ends the run on a ceiling
\* test, without the planner being asked.
C14_CeilingBeforeReplan ==
    /\ [](pc = "plan" => step_count < max_execution_steps)
    /\ [][/\ (plan_calls' = plan_calls + 1) => step_count < max_execution_steps
          /\ (pc \in {"record_first", "record_next"}
              /\ Len(execution_history') = Len(execution_history) + 1
              /\ step_count' >= max_execution_steps) =>
                (pc' = "done" /\ exit' \in CeilingExits /\ plan_calls' = plan_calls)]_vars

C14_Witness ==
    /\ planner = "builtin"
    /\ pc = "done"
    /\ exit = "step_ceiling"
    /\ max_execution_steps = 2
    /\ user_query = <<"fenxi", "danci">>
    /\ plan_calls = 1
    /\ execution_history[2].tool_name = "word_statistics"

\* C15: no exception of a planning method leaves the run (a planning failure
\* ends the run with the reason no_plan).
C15_PlanningFailureIsNoPlan ==
    pc = "done" => exit # "exception"

\* the keyword rules of get_initial_plan, in the order of the claim
MatchesRule(n, text) ==
    CASE n = 1 -> WordAnalysisRequest(text)
      [] n = 2 -> \E i \in 1..Len(text) : text[i] = "xuexijindu"
      [] n = 3 -> \E i \in 1..Len(text) : text[i] = "cishu"
      [] n = 4 -> \E i \in 1..Len(text) : text[i] \in {"keshihua", "tubiao"}
      [] OTHER -> TRUE

LowestMatchingRule(text) ==
    CHOOSE n \in 1..5 : MatchesRule(n, text) /\ \A m \in 1..(n - 1) : ~MatchesRule(m, text)

RuleTool(n) ==
    CASE n = 2 -> "learning_progress_analysis"
      [] n = 3 -> "wordbook_analysis"
      [] n = 4 -> "learning_visualization"
      [] OTHER -> "collection_basic_info"

\* C18: get_initial_plan returns exactly one step for every prompt; when no
\* keyword rule matches it is collection_basic_info with empty tool_input.
C18_InitialPlanNeverEmpty ==
    pc = "got_initial_plan" =>
        /\ Len(initial_plan) = 1
        /\ DOMAIN initial_plan[1] = {"tool_name", "tool_input"}
        /\ ((\A n \in 1..4 : ~MatchesRule(n, user_query)) =>
                initial_plan = <<[tool_name |-> "collection_basic_info",
                                  tool_input |-> EmptyDict]>>)

C18_Witness ==
    /\ pc = "got_initial_plan"
    /\ user_query = <<"other", "deyu">>
    /\ initial_plan = <<[tool_name |-> "collection_basic_info", tool_input |-> EmptyDict]>>

\* C19: the tool of the initial plan is that of the lowest-numbered rule the
\* prompt matches, in the order word analysis, 学习进度, 词书, 可视化/图表,
\* fallback; and the same prompt gives the same plan again.
C19_FirstMatchWins ==
    pc = "got_initial_plan" =>
        /\ initial_plan[1].tool_name = RuleTool(LowestMatchingRule(user_query))
        /\ get_initial_plan(Self, user_query).ret = initial_plan

C19_Witness ==
    /\ pc = "got_initial_plan"
    /\ MatchesRule(1, user_query)
    /\ MatchesRule(2, user_query)
    /\ MatchesRule(3, user_query)
    /\ initial_plan[1].tool_name = "collection_basic_info"

\* C20: an empty initial plan ends the run at once with the no-plan outcome:
\* nothing is executed, get_next_plan is not called, execution_history is empty.
C20_EmptyInitialPlan ==
    /\ (exit = "no_plan" =>
            /\ pc = "done"
            /\ initial_plan = << >>
            /\ execution_history = << >>
            /\ exec_calls = 0
            /\ plan_calls = 0)
    /\ ((pc # "idle" /\ initial_plan = << >> /\ exit # "exception") => exit = "no_plan")

C20_Witness ==
    /\ planner = "stub"
    /\ pc = "done"
    /\ exit = "no_plan"
    /\ initial_plan = << >>
    /\ execution_history = << >>

\* C16: of two runs interleaved at their tool calls, each leaves in the
\* history exactly the records of the steps it executed itself, and each
\* plans from its own request.
C16_RunsIsolated ==
    \A i \in DOMAIN runs :
        runs[i].pc # "idle" =>
            /\ runs[i].view = runs[i].executed
            /\ runs[i].planned_for = runs[i].request

\* C17: when the interrupt has been signalled and the run is at the top of
\* its loop, the run ends there as cancelled: it plans and executes nothing
\* more and execution_history stays as it is.
C17_CancelChecked ==
    [][(cancel_requested /\ pc = "plan") =>
          /\ pc' = "done"
          /\ exit' = "interrupted"
          /\ execution_history' = execution_history
          /\ exec_calls' = exec_calls
          /\ plan_calls' = plan_calls]_vars

\* a step whose tool name is absent, empty or null
NoToolName(s) == "tool_name" \notin DOMAIN s \/ s.tool_name \in {"", PyNone}

\* C21: a step without a tool name never reaches the registry: execute_step
\* returns the missing-tool-name failure, and the run loop appends a record
\* with that error and goes on to replanning (or ends on the ceiling).
C21_MissingToolName ==
    [][/\ (pc \in {"exec_first", "exec_next"} /\ NoToolName(step)) =>
             /\ tool_outcome' = NotCalled
             /\ ret' = Triple(FALSE, None, Some(MissingToolName))
       /\ (pc \in {"record_first", "record_next"} /\ NoToolName(step)) =>
             /\ Len(execution_history') = Len(execution_history) + 1
             /\ execution_history'[Len(execution_history')].error = Some(MissingToolName)
             /\ execution_history'[Len(execution_history')].tool_output = None
             /\ (pc' = "plan" \/ (pc' = "done" /\ exit' \in CeilingExits))]_vars

\* C22: every call of get_next_plan made by the run loop finds a non-empty
\* execution_history whose last record is that of the step executed just
\* before, and a step is handed to execute_step only when every step executed
\* before it has its record.
C22_RecordedBeforePlanning ==
    /\ [](pc \in {"exec_first", "exec_next", "plan"} => Len(execution_history) = exec_calls)
    /\ [][(plan_calls' = plan_calls + 1) =>
            /\ execution_history # << >>
            /\ Len(execution_history) = exec_calls
            /\ execution_history[Len(execution_history)].tool_name
                  = GetDefault(step, "tool_name", "unknown")
            /\ execution_history[Len(execution_history)].tool_input
                  = GetDefault(step, "tool_input", EmptyDict)]_vars

C22_Witness ==
    /\ pc = "plan"
    /\ plan_calls = 1
    /\ Len(execution_history) = 2
    /\ execution_history[1].tool_name = "collection_basic_info"
    /\ execution_history[2].tool_name = "word_statistics"
    /\ step.tool_name = "word_statistics"

\* C23: get_next_plan called with an empty execution_history returns no next
\* step and a reasoning that is present and not empty, whatever user_query is.
C23_EmptyHistoryEmptyPlan ==
    (pc = "got_next_plan" /\ execution_history = << >>) =>
        /\ next_plan = << >>
        /\ reasoning # None
        /\ reasoning[1] # ""

C23_Witness ==
    /\ pc = "got_next_plan"
    /\ execution_history = << >>
    /\ user_query = <<"fenxi", "danci">>
    /\ next_plan = << >>
    /\ reasoning # None

\* the ways a run can end that the planning rules allow for
PlannedEndings == {"completed", "step_ceiling", "loop_condition", "explicit_terminate", "no_plan"}

\* C24: the built-in get_next_plan called by the run loop returns the single
\* step word_statistics, with the parameters of user_query, exactly when the
\* last record is collection_basic_info and user_query mentions 单词 or 词汇,
\* and no step otherwise; a run with the built-in planner ends only through
\* an empty plan, the ceiling, an explicit terminate or an empty initial plan.
C24_OneContinuationRule ==
    /\ []((planner = "builtin" /\ pc = "done") => exit \in PlannedEndings)
    /\ [][(planner = "builtin" /\ plan_calls' = plan_calls + 1) =>
            IF /\ execution_history[Len(execution_history)].tool_name = "collection_basic_info"
               /\ \E i \in 1..Len(user_query) : user_query[i] \in {"danci", "cihui"}
            THEN next_plan' = <<[tool_name |-> "word_statistics",
                                 tool_input |-> QueryParams(user_query)]>>
            ELSE next_plan' = << >>]_vars

C24_Witness ==
    /\ planner = "builtin"
    /\ pc = "exec_next"
    /\ user_query = <<"deyu", "danci">>
    /\ execution_history[1].tool_name = "collection_basic_info"
    /\ step = [tool_name |-> "word_statistics", tool_input |-> [language |-> "de"]]

\* the category tags and the level tags, in the order the planner tests them
Categories == <<"mingci", "dongci", "xingrongci", "jiaju", "jianzhu">>
Levels == <<"A1", "A2", "B1", "B2", "C1">>

\* the spellings of a level tag that differ only in case
Spellings(level) ==
    CASE level = "A1" -> {"A1", "a1"}
      [] level = "C1" -> {"C1", "c1"}
      [] OTHER -> {level}

Least(S) == CHOOSE n \in S : \A m \in S : n <= m

\* C25: the tool_input of the word_statistics step: language is de when the
\* query mentions 德语, else en when it mentions 英语, else absent; tag is the
\* first category tag mentioned (in the order 名词, 动词, 形容词, 家具, 建筑),
\* else the first level tag mentioned in any case (in the order A1, A2, B1,
\* B2, C1), else absent.
C25_ParameterPrecedence ==
    (pc = "got_next_plan" /\ next_plan # << >>) =>
        LET q == user_query
            input == next_plan[1].tool_input
            mentions(tok) == \E i \in 1..Len(q) : q[i] = tok
            cats == {n \in 1..5 : mentions(Categories[n])}
            lvls == {n \in 1..5 : \E i \in 1..Len(q) : q[i] \in Spellings(Levels[n])}
        IN  /\ Len(next_plan) = 1
            /\ next_plan[1].tool_name = "word_statistics"
            /\ DOMAIN input \subseteq {"language", "tag"}
            /\ IF mentions("deyu") THEN "language" \in DOMAIN input /\ input.language = "de"
               ELSE IF mentions("yingyu")
                    THEN "language" \in DOMAIN input /\ input.language = "en"
                    ELSE "language" \notin DOMAIN input
            /\ IF cats # {} THEN "tag" \in DOMAIN input /\ input.tag = Categories[Least(cats)]
               ELSE IF lvls # {}
                    THEN "tag" \in DOMAIN input /\ input.tag = Levels[Least(lvls)]
                    ELSE "tag" \notin DOMAIN input

C25_Witness ==
    /\ pc = "got_next_plan"
    /\ user_query = <<"fenxi", "danci", "a1", "jiaju">>
    /\ next_plan # << >>
    /\ next_plan[1].tool_input = [tag |-> "jiaju"]

\* C26: whenever the loop condition has been evaluated, step_count is the
\* number of records of execution_history; a run ends with step_count above
\* the number of executed steps only on the explicit-terminate exit, and then
\* by exactly one, no record having been appended for the sentinel.
C26_StepCountMatchesHistory ==
    /\ (pc = "plan" => step_count = Len(execution_history))
    /\ ((pc = "done" /\ exit \in {"loop_condition", "step_ceiling", "completed"}) =>
            (step_count = Len(execution_history) /\ step_count = exec_calls))
    /\ ((pc = "done" /\ exit = "explicit_terminate") =>
            (step_count = exec_calls + 1 /\ Len(execution_history) = exec_calls))
    /\ ((pc = "done" /\ step_count > exec_calls) => exit = "explicit_terminate")

C26_Witness ==
    /\ pc = "done"
    /\ exit = "explicit_terminate"
    /\ step_count = 3
    /\ exec_calls = 2
    /\ Len(execution_history) = 2

\* C27: with max_execution_steps <= 1 (0 and negative values included) a run
\* whose initial plan is not empty executes exactly one step, never calls
\* get_next_plan and ends with one record in execution_history.
C27_FirstStepBeforeCeiling ==
    (pc = "done" /\ max_execution_steps <= 1 /\ initial_plan # << >>) =>
        /\ exec_calls = 1
        /\ plan_calls = 0
        /\ Len(execution_history) = 1

\* C28: a terminate step at the head of the initial plan is not intercepted:
\* it is handed to execute_step and recorded as any first step is; the run
\* then goes on to replanning when max_execution_steps >= 2 and ends on the
\* loop condition otherwise; the explicit-terminate exit is only taken after
\* a call of get_next_plan.
C28_InitialTerminateExecuted ==
    /\ [](exit = "explicit_terminate" => plan_calls >= 1)
    /\ [][/\ (pc \in {"idle", "done"} /\ initial_plan' # << >>
              /\ Get(initial_plan'[1], "tool_name") = Some("terminate")) =>
                (pc' = "exec_first" /\ step' = initial_plan'[1])
          /\ (pc = "record_first" /\ Get(step, "tool_name") = Some("terminate")) =>
                /\ exec_calls = 1
                /\ Len(execution_history') = 1
                /\ execution_history'[1].tool_name = "terminate"
                /\ (max_execution_steps >= 2 => pc' = "plan")
                /\ (max_execution_steps <= 1 =>
                        (pc' = "done" /\ exit' = "loop_condition"))]_vars

C28_Witness ==
    /\ pc = "plan"
    /\ plan_calls = 0
    /\ initial_plan = <<TerminateStep>>
    /\ Len(execution_history) = 1
    /\ execution_history[1].tool_name = "terminate"

\* C28 as stated: after the record of a terminate first step the run always
\* continues to replanning.
C28_AlwaysReplans ==
    [][(pc = "record_first" /\ Get(step, "tool_name") = Some("terminate")) =>
          /\ Len(execution_history') = 1
          /\ execution_history'[1].tool_name = "terminate"
          /\ pc' = "plan"]_vars

\* the (tool_name, tool_input) pairs of the records of a history
Dispatched(history) ==
    [i \in 1..Len(history) |->
        [tool_name |-> history[i].tool_name, tool_input |-> history[i].tool_input]]

RuleInput(n) ==
    CASE n = 2 -> [user_id |-> UserId]
      [] n = 3 -> [wordbook_id |-> WordbookId]
      [] n = 4 -> [user_id |-> UserId, chart_type |-> "progress_trend"]
      [] OTHER -> EmptyDict

\* the steps a request and a ceiling determine, whatever the tools do
ExpectedDispatch(request, max) ==
    LET rule == LowestMatchingRule(request)
        first == [tool_name |-> RuleTool(rule), tool_input |-> RuleInput(rule)]
        words == \E i \in 1..Len(request) : request[i] \in {"danci", "cihui"}
    IN  IF first.tool_name = "collection_basic_info" /\ words /\ max >= 2
        THEN <<first, [tool_name |-> "word_statistics",
                       tool_input |-> QueryParams(request)]>>
        ELSE <<first>>

\* C29: with the built-in planner the steps dispatched in a run are those
\* the request and max_execution_steps determine, whatever the tools returned
\* or raised: at every point the steps recorded are a prefix of that sequence,
\* the step handed to execute_step is its next element, and at the end of the
\* run the whole sequence has been dispatched.
C29_DispatchIgnoresOutcomes ==
    planner = "builtin" =>
        LET expected == ExpectedDispatch(user_query, max_execution_steps)
        IN  /\ IsPrefix(Dispatched(execution_history), expected)
            /\ (pc \in {"exec_first", "exec_next"} =>
                    /\ exec_calls + 1 <= Len(expected)
                    /\ step = expected[exec_calls + 1])
            /\ (pc = "done" => Dispatched(execution_history) = expected)

C29_Witness ==
    /\ planner = "builtin"
    /\ pc = "exec_next"
    /\ execution_history[1].tool_name = "collection_basic_info"
    /\ execution_history[1].error # None
    /\ tool_outcome.kind = "ToolError"
    /\ step.tool_name = "word_statistics"

\* C30: with the built-in planner a run executes at most two steps whatever
\* the request and the ceiling; word_statistics is only ever the second step,
\* right after collection_basic_info; and with the default ceiling the run
\* ends on an empty next plan, never on the ceiling.
C30_AtMostTwoSteps ==
    planner = "builtin" =>
        /\ exec_calls <= 2
        /\ Len(execution_history) <= 2
        /\ \A i \in 1..Len(execution_history) :
              execution_history[i].tool_name = "word_statistics" =>
                  (i = 2 /\ execution_history[1].tool_name = "collection_basic_info")
        /\ ((pc \in {"exec_first", "exec_next"}
             /\ Get(step, "tool_name") = Some("word_statistics")) =>
                /\ exec_calls = 1
                /\ Len(execution_history) = 1
                /\ execution_history[1].tool_name = "collection_basic_info")
        /\ ((pc = "done" /\ max_execution_steps = DefaultMaxSteps) => exit = "completed")

C30_Witness ==
    /\ planner = "builtin"
    /\ max_execution_steps = DefaultMaxSteps
    /\ pc = "done"
    /\ exit = "completed"
    /\ Len(execution_history) = 2
    /\ execution_history[2].tool_name = "word_statistics"

====
